---- MODULE Spec2Model ----
(***************************************************************************)
(* Model of the ServoSweeper extension (src/main.ts): the Servo class, the *)
(* registry `servos` behind connectServo, and the exported block functions *)
(* setAngle, sweep, stop and getAngle.                                     *)
(*                                                                         *)
(* The block program is one sequential caller: an exported function is     *)
(* called only while no other one is running (pc = "idle").  Servo.sweep   *)
(* blocks its caller, so it is modelled statement by statement: one loop   *)
(* iteration is the four steps setAngle, pause, advance, poll.  The only   *)
(* thing that moves while a sweep runs is Button A, which the user presses *)
(* and releases at any time.                                               *)
(*                                                                         *)
(* Numbers are integers here: angles, speeds and cycle counts are the      *)
(* whole numbers the block editor's sliders produce.  The pulse width is   *)
(* computed in exact rational arithmetic (numerator, denominator); the     *)
(* values involved are multiples of 1/9 microsecond, so the floating-point *)
(* computation of the source rounds to the same microsecond.               *)
(***************************************************************************)
EXTENDS Integers, Sequences, FiniteSets, TLC

(***************************************************************************)
(* Bounds of the model (not program constants).                            *)
(***************************************************************************)
\* Largest distance between the two angles of a sweep (the full-range sweeps
\* of FullSweepInputs aside).
MaxSpan == 3
\* Largest cycles argument passed to sweep.
MaxCycles == 2
\* How far the angles probed on angleToPulse reach outside [0, 180].
MaxOver == 3
\* How far the speed and cycles given to sweep reach outside their domains.
MaxOff == 2

(***************************************************************************)
(* Program constants (src/main.ts lines 12-16).  Pulse widths in ms are    *)
(* rationals <<numerator, denominator>>.                                   *)
(***************************************************************************)
SERVO_PERIOD_MS == 20
MIN_PULSE_MS == <<1, 2>>
MAX_PULSE_MS == <<5, 2>>
ANGLE_RANGE == 180

\* Exact rational arithmetic standing for the source's number arithmetic.
RInt(n) == <<n, 1>>
RAdd(x, y) == <<x[1] * y[2] + y[1] * x[2], x[2] * y[2]>>
RSub(x, y) == <<x[1] * y[2] - y[1] * x[2], x[2] * y[2]>>
RMul(x, y) == <<x[1] * y[1], x[2] * y[2]>>
RDiv(x, y) == <<x[1] * y[2], x[2] * y[1]>>

PULSE_RANGE_MS == RSub(MAX_PULSE_MS, MIN_PULSE_MS)

\* Math.round: the nearest integer, a half rounding up (denominator > 0).
MathRound(x) == (2 * x[1] + x[2]) \div (2 * x[2])

\* Math.max
MathMax(a, b) == IF a >= b THEN a ELSE b

\* Math.constrain(value, low, high)
MathConstrain(value, low, high) ==
    IF value < low THEN low ELSE IF value > high THEN high ELSE value

(***************************************************************************)
(* Inputs of the exported functions.                                       *)
(***************************************************************************)
\* AnalogPin values the block program connects servos to.
Pins == {0, 1}

\* Sweep angles are taken in a window of width MaxSpan at the low end of the
\* range and in a window around the high end, each reaching one degree outside
\* the range, so that the clamps at 0 and at 180 are both exercised.
LowAngles == (0 - 1) .. MaxSpan
HighAngles == (ANGLE_RANGE - 1) .. (ANGLE_RANGE + 1)

\* angle arguments of setAngle
AngleInputs == {0 - 10, 0, 90, 180, 200}

\* <<startAngle, endAngle>> arguments of sweep
SweepAngleInputs == (LowAngles \X LowAngles) \cup (HighAngles \X HighAngles)

SpeedInputs == {0, 8, 11}
CyclesInputs == 0 .. MaxCycles

\* <<startAngle, endAngle, speed, cycles>> arguments of sweep: every pair of
\* angles with every cycles value at the editor's default speed, and one
\* sweep at each of the other speeds (the speed only sets the pause).
SweepInputs ==
    {<<se[1], se[2], 5, c>> : se \in SweepAngleInputs, c \in CyclesInputs}
        \cup {<<0, MaxSpan, sp, 1>> : sp \in SpeedInputs}

\* the full-range sweeps, taken where Button A is left alone
FullSweepInputs == {<<0, ANGLE_RANGE, 10, 1>>, <<ANGLE_RANGE, 0, 10, 1>>}

\* <<speed, cycles>> arguments a block program gives to all its sweeps:
\* every speed from below 1 to above 10 with one cycle, every cycles value
\* from below 1 upwards at the editor's default speed, and both arguments
\* outside their domains
GivenInputs ==
    {<<sp, 1>> : sp \in (1 - MaxOff) .. (10 + MaxOff)}
        \cup {<<5, c>> : c \in (0 - MaxOff) .. MaxCycles}
        \cup {<<10 + MaxOff, 0 - MaxOff>>}

\* <<startAngle, endAngle>> arguments of those sweeps
GivenAngleInputs ==
    {<<0, MaxSpan>>, <<MaxSpan, 0>>, <<ANGLE_RANGE, ANGLE_RANGE>>}

\* angles probed on angleToPulse
ProbeAngles == (0 - MaxOver) .. (ANGLE_RANGE + MaxOver)

(***************************************************************************)
(* State.                                                                  *)
(***************************************************************************)
VARIABLES
    heap,     \* the Servo objects ever constructed, by handle 1..Len(heap)
    servos,   \* the registry: pin -> handle of its Servo, 0 when absent
    pins,     \* the PWM capability: per pin, the period and the last write
    button,   \* whether Button A is held down right now
    pc,       \* where the caller is: "idle", or inside Servo.sweep
    sw,       \* the locals of the running Servo.sweep call
    event,    \* what the last program step did: call, arguments, I/O, result
    probe,    \* angleToPulse evaluated on its own
    given     \* the speed and cycles a block program passes to its sweeps

vars == <<heap, servos, pins, button, pc, sw, event, probe, given>>

NoPin == 0 - 1
Nil == 0 - 1

\* One call of an external capability (pins.*, basic.pause, input.*).
IOCall(call, pin, value) == [call |-> call, pin |-> pin, value |-> value]

Event(op, this, args, io, ret) ==
    [op |-> op, this |-> this, args |-> args, io |-> io, ret |-> ret]

NoFrame ==
    [this |-> 0, startAngle |-> 0, endAngle |-> 0, delayMs |-> 0, cycles |-> 0,
     step |-> 0, current |-> 0, cycleCount |-> 0, forward |-> FALSE]

NoProbe == [a |-> 0, b |-> 0, pa |-> Nil, pb |-> Nil, done |-> FALSE]

NoGiven == [speed |-> 0, cycles |-> 0]

Handles == 1 .. Len(heap)

(***************************************************************************)
(* The PWM capability (external): what each call leaves on the pin.        *)
(***************************************************************************)
analogSetPeriod(hw, pin, micros) == [hw EXCEPT ![pin].period = micros]
servoWritePin(hw, pin, value) ==
    [hw EXCEPT ![pin].mode = "servo", ![pin].value = value]
analogWritePin(hw, pin, value) ==
    [hw EXCEPT ![pin].mode = "analog", ![pin].value = value]

(***************************************************************************)
(* class Servo                                                             *)
(***************************************************************************)
\* constructor(pin): the new object, and the period write it issues
Servo_new(pin) == [pin |-> pin, currentAngle |-> 90, isActive |-> FALSE]
Servo_newIO(pin) == <<IOCall("analogSetPeriod", pin, SERVO_PERIOD_MS * 1000)>>

\* Variant of angleToPulse: the pulse is truncated instead of rounded.
angleToPulse_Truncate(angle) ==
    LET a == MathConstrain(angle, 0, ANGLE_RANGE)
        pulseMs == RAdd(MIN_PULSE_MS,
                        RMul(RDiv(RInt(a), RInt(ANGLE_RANGE)), PULSE_RANGE_MS))
        us == RMul(pulseMs, RInt(1000))
    IN  us[1] \div us[2]

\* private angleToPulse(angle), lines 33-37
angleToPulse(angle) ==
    LET a == MathConstrain(angle, 0, ANGLE_RANGE)
        pulseMs == RAdd(MIN_PULSE_MS,
                        RMul(RDiv(RInt(a), RInt(ANGLE_RANGE)), PULSE_RANGE_MS))
    IN  MathRound(RMul(pulseMs, RInt(1000)))

\* Variants of setAngle: the angle is written but not stored; the angle is
\* stored as given, unclamped; the angle is stored on every Servo object.
Servo_setAngle_NoStore(h, angle) ==
    LET cur == MathConstrain(angle, 0, ANGLE_RANGE)
        pulseWidth == angleToPulse(cur)
    IN  [heap |-> [heap EXCEPT ![h].isActive = TRUE],
         pins |-> servoWritePin(pins, heap[h].pin, pulseWidth),
         io |-> <<IOCall("servoWritePin", heap[h].pin, pulseWidth)>>]

Servo_setAngle_NoClamp(h, angle) ==
    LET pulseWidth == angleToPulse(angle)
    IN  [heap |-> [heap EXCEPT ![h].currentAngle = angle, ![h].isActive = TRUE],
         pins |-> servoWritePin(pins, heap[h].pin, pulseWidth),
         io |-> <<IOCall("servoWritePin", heap[h].pin, pulseWidth)>>]

Servo_setAngle_AllServos(h, angle) ==
    LET cur == MathConstrain(angle, 0, ANGLE_RANGE)
        pulseWidth == angleToPulse(cur)
    IN  [heap |-> [i \in DOMAIN heap |->
                      [heap[i] EXCEPT !.currentAngle = cur, !.isActive = TRUE]],
         pins |-> servoWritePin(pins, heap[h].pin, pulseWidth),
         io |-> <<IOCall("servoWritePin", heap[h].pin, pulseWidth)>>]

\* Variant of setAngle: the pulse is computed from the angle stored before.
Servo_setAngle_StalePulse(h, angle) ==
    LET cur == MathConstrain(angle, 0, ANGLE_RANGE)
        pulseWidth == angleToPulse(heap[h].currentAngle)
    IN  [heap |-> [heap EXCEPT ![h].currentAngle = cur, ![h].isActive = TRUE],
         pins |-> servoWritePin(pins, heap[h].pin, pulseWidth),
         io |-> <<IOCall("servoWritePin", heap[h].pin, pulseWidth)>>]

\* setAngle(angle), lines 40-45, on the object with handle h: the heap, the
\* pin state and the capability calls it leaves behind
Servo_setAngle(h, angle) ==
    LET cur == MathConstrain(angle, 0, ANGLE_RANGE)
        pulseWidth == angleToPulse(cur)
    IN  [heap |-> [heap EXCEPT ![h].currentAngle = cur, ![h].isActive = TRUE],
         pins |-> servoWritePin(pins, heap[h].pin, pulseWidth),
         io |-> <<IOCall("servoWritePin", heap[h].pin, pulseWidth)>>]

\* Variant of stop: the servo is also put back to its neutral angle.
Servo_stop_Recenter(h) ==
    [heap |-> [heap EXCEPT ![h].isActive = FALSE, ![h].currentAngle = 90],
     pins |-> analogWritePin(pins, heap[h].pin, 0),
     io |-> <<IOCall("analogWritePin", heap[h].pin, 0)>>]

\* Variant of stop: the output is disabled but isActive is left as it was.
Servo_stop_KeepActive(h) ==
    [heap |-> heap,
     pins |-> analogWritePin(pins, heap[h].pin, 0),
     io |-> <<IOCall("analogWritePin", heap[h].pin, 0)>>]

\* stop(), lines 88-91
Servo_stop(h) ==
    [heap |-> [heap EXCEPT ![h].isActive = FALSE],
     pins |-> analogWritePin(pins, heap[h].pin, 0),
     io |-> <<IOCall("analogWritePin", heap[h].pin, 0)>>]

\* getAngle(), lines 94-96
Servo_getAngle(h) == heap[h].currentAngle

\* Variant of the entry of sweep: equal angles step upwards.
Servo_sweepEntry_StepUpOnTie(h, startAngle, endAngle, speed, cycles) ==
    LET s == MathConstrain(startAngle, 0, ANGLE_RANGE)
        e == MathConstrain(endAngle, 0, ANGLE_RANGE)
        sp == MathConstrain(speed, 1, 10)
        cy == MathMax(1, cycles)
    IN  [this |-> h, startAngle |-> s, endAngle |-> e,
         delayMs |-> MathRound(RDiv(RInt(100), RInt(sp))), cycles |-> cy,
         step |-> IF s <= e THEN 1 ELSE 0 - 1,
         current |-> s, cycleCount |-> 0, forward |-> TRUE]

\* Variant of the entry of sweep: cycles is taken as given.
Servo_sweepEntry_NoCyclesFloor(h, startAngle, endAngle, speed, cycles) ==
    LET s == MathConstrain(startAngle, 0, ANGLE_RANGE)
        e == MathConstrain(endAngle, 0, ANGLE_RANGE)
        sp == MathConstrain(speed, 1, 10)
    IN  [this |-> h, startAngle |-> s, endAngle |-> e,
         delayMs |-> MathRound(RDiv(RInt(100), RInt(sp))), cycles |-> cycles,
         step |-> IF s < e THEN 1 ELSE 0 - 1,
         current |-> s, cycleCount |-> 0, forward |-> TRUE]

\* sweep(...), lines 49-58: the clamps and the initial locals
Servo_sweepEntry(h, startAngle, endAngle, speed, cycles) ==
    LET s == MathConstrain(startAngle, 0, ANGLE_RANGE)
        e == MathConstrain(endAngle, 0, ANGLE_RANGE)
        sp == MathConstrain(speed, 1, 10)
        cy == MathMax(1, cycles)
    IN  [this |-> h, startAngle |-> s, endAngle |-> e,
         delayMs |-> MathRound(RDiv(RInt(100), RInt(sp))), cycles |-> cy,
         step |-> IF s < e THEN 1 ELSE 0 - 1,
         current |-> s, cycleCount |-> 0, forward |-> TRUE]

\* sweep, line 60: the loop test
Servo_sweepLoopTest(f) == f.cycleCount < f.cycles

\* Variant of the advance: the forward reversal does not count a cycle.
Servo_sweepAdvance_NoCount(f) ==
    LET moved == f.current + f.step
        hit == moved >= f.endAngle \/ moved <= f.startAngle
    IN  IF ~hit
        THEN [f EXCEPT !.current = moved]
        ELSE [f EXCEPT !.forward = ~f.forward, !.step = 0 - f.step,
                       !.current = moved + (0 - f.step) * 2]

\* Variant of the advance: the position reverses only beyond a bound.
Servo_sweepAdvance_StrictBounds(f) ==
    LET moved == f.current + f.step
        hit == moved > f.endAngle \/ moved < f.startAngle
    IN  IF ~hit
        THEN [f EXCEPT !.current = moved]
        ELSE IF f.forward
        THEN [f EXCEPT !.forward = FALSE, !.step = 0 - f.step,
                       !.current = moved + (0 - f.step) * 2,
                       !.cycleCount = f.cycleCount + 1]
        ELSE [f EXCEPT !.forward = TRUE, !.step = 0 - f.step,
                       !.current = moved + (0 - f.step) * 2]

\* sweep, lines 63-78: advance the position, reverse at a bound
Servo_sweepAdvance(f) ==
    LET moved == f.current + f.step
        hit == moved >= f.endAngle \/ moved <= f.startAngle
    IN  IF ~hit
        THEN [f EXCEPT !.current = moved]
        ELSE IF f.forward
        THEN [f EXCEPT !.forward = FALSE, !.step = 0 - f.step,
                       !.current = moved + (0 - f.step) * 2,
                       !.cycleCount = f.cycleCount + 1]
        ELSE [f EXCEPT !.forward = TRUE, !.step = 0 - f.step,
                       !.current = moved + (0 - f.step) * 2]

(***************************************************************************)
(* Initial state: nothing connected, Button A up.                          *)
(***************************************************************************)
Init ==
    /\ heap = <<>>
    /\ servos = [p \in Pins |-> 0]
    /\ pins = [p \in Pins |-> [period |-> 0, mode |-> "none", value |-> 0]]
    /\ button = FALSE
    /\ pc = "idle"
    /\ sw = NoFrame
    /\ event = Event("init", 0, <<>>, <<>>, Nil)
    /\ probe = NoProbe
    /\ given = NoGiven

(***************************************************************************)
(* Exported functions.                                                     *)
(***************************************************************************)
\* Variant of connectServo: a Servo is constructed on every call.
connectServo_AlwaysNew(pin) ==
    /\ pc = "idle"
    /\ heap' = Append(heap, Servo_new(pin))
    /\ servos' = [servos EXCEPT ![pin] = Len(heap) + 1]
    /\ pins' = analogSetPeriod(pins, pin, SERVO_PERIOD_MS * 1000)
    /\ event' = Event("connectServo", 0, <<pin>>, Servo_newIO(pin), Len(heap) + 1)
    /\ UNCHANGED <<button, pc, sw, probe, given>>

\* Variant of connectServo: the period is configured on every call.
connectServo_Reconfigure(pin) ==
    /\ pc = "idle"
    /\ IF servos[pin] = 0
       THEN /\ heap' = Append(heap, Servo_new(pin))
            /\ servos' = [servos EXCEPT ![pin] = Len(heap) + 1]
            /\ event' = Event("connectServo", 0, <<pin>>, Servo_newIO(pin),
                              Len(heap) + 1)
       ELSE /\ UNCHANGED <<heap, servos>>
            /\ event' = Event("connectServo", 0, <<pin>>, Servo_newIO(pin),
                              servos[pin])
    /\ pins' = analogSetPeriod(pins, pin, SERVO_PERIOD_MS * 1000)
    /\ UNCHANGED <<button, pc, sw, probe, given>>

\* connectServo(pin), lines 108-113
connectServo(pin) ==
    /\ pc = "idle"
    /\ IF servos[pin] = 0
       THEN /\ heap' = Append(heap, Servo_new(pin))
            /\ servos' = [servos EXCEPT ![pin] = Len(heap) + 1]
            /\ pins' = analogSetPeriod(pins, pin, SERVO_PERIOD_MS * 1000)
            /\ event' = Event("connectServo", 0, <<pin>>, Servo_newIO(pin),
                              Len(heap) + 1)
       ELSE /\ UNCHANGED <<heap, servos, pins>>
            /\ event' = Event("connectServo", 0, <<pin>>, <<>>, servos[pin])
    /\ UNCHANGED <<button, pc, sw, probe, given>>

\* setAngle(servo, angle), lines 123-125
setAngle(h, angle) ==
    /\ pc = "idle"
    /\ LET r == Servo_setAngle(h, angle)
       IN  /\ heap' = r.heap
           /\ pins' = r.pins
           /\ event' = Event("setAngle", h, <<angle>>, r.io, Nil)
    /\ UNCHANGED <<servos, button, pc, sw, probe, given>>

\* stop(servo), lines 152-154
stop(h) ==
    /\ pc = "idle"
    /\ LET r == Servo_stop(h)
       IN  /\ heap' = r.heap
           /\ pins' = r.pins
           /\ event' = Event("stop", h, <<>>, r.io, Nil)
    /\ UNCHANGED <<servos, button, pc, sw, probe, given>>

\* getAngle(servo), lines 162-164
getAngle(h) ==
    /\ pc = "idle"
    /\ event' = Event("getAngle", h, <<>>, <<>>, Servo_getAngle(h))
    /\ UNCHANGED <<heap, servos, pins, button, pc, sw, probe, given>>

\* sweep(servo, startAngle, endAngle, speed, cycles), lines 142-144 and the
\* entry of Servo.sweep up to the first loop test
sweep(h, startAngle, endAngle, speed, cycles) ==
    /\ pc = "idle"
    /\ LET f == Servo_sweepEntry(h, startAngle, endAngle, speed, cycles)
       IN  IF Servo_sweepLoopTest(f)
           THEN pc' = "setAngle" /\ sw' = f
           ELSE pc' = "idle" /\ sw' = NoFrame
    /\ event' = Event("sweep", h, <<>>, <<>>, Nil)
    /\ UNCHANGED <<heap, servos, pins, button, probe, given>>

(***************************************************************************)
(* One iteration of the loop of Servo.sweep, lines 60-84.                  *)
(***************************************************************************)
\* line 61: this.setAngle(current)
sweepSetAngle ==
    /\ pc = "setAngle"
    /\ LET r == Servo_setAngle(sw.this, sw.current)
       IN  /\ heap' = r.heap
           /\ pins' = r.pins
           /\ event' = Event("sweep.setAngle", sw.this, <<sw.current>>, r.io, Nil)
    /\ pc' = "pause"
    /\ UNCHANGED <<servos, button, sw, probe, given>>

\* line 62: basic.pause(delayMs)
sweepPause ==
    /\ pc = "pause"
    /\ event' = Event("sweep.pause", sw.this, <<>>,
                      <<IOCall("pause", NoPin, sw.delayMs)>>, Nil)
    /\ pc' = "advance"
    /\ UNCHANGED <<heap, servos, pins, button, sw, probe, given>>

\* Variant of the advance step: the loop goes on without polling Button A.
sweepAdvance_NoPoll ==
    /\ pc = "advance"
    /\ sw' = Servo_sweepAdvance(sw)
    /\ event' = Event("sweep.advance", sw.this, <<>>, <<>>, Nil)
    /\ pc' = "setAngle"
    /\ UNCHANGED <<heap, servos, pins, button, probe, given>>

\* lines 63-78
sweepAdvance ==
    /\ pc = "advance"
    /\ sw' = Servo_sweepAdvance(sw)
    /\ event' = Event("sweep.advance", sw.this, <<>>, <<>>, Nil)
    /\ pc' = "poll"
    /\ UNCHANGED <<heap, servos, pins, button, probe, given>>

\* Variant of the poll: Button A is read but the loop does not break.
sweepPoll_NoBreak ==
    /\ pc = "poll"
    /\ event' = Event("sweep.poll", sw.this, <<sw.cycleCount, sw.cycles>>,
                      <<IOCall("buttonIsPressed", NoPin, IF button THEN 1 ELSE 0)>>,
                      Nil)
    /\ IF Servo_sweepLoopTest(sw)
       THEN pc' = "setAngle" /\ sw' = sw
       ELSE pc' = "idle" /\ sw' = NoFrame
    /\ UNCHANGED <<heap, servos, pins, button, probe, given>>

\* lines 81-83, then the loop test of line 60: break, loop again, or return.
\* The event keeps cycleCount and cycles as they are at that moment.
sweepPoll ==
    /\ pc = "poll"
    /\ event' = Event("sweep.poll", sw.this, <<sw.cycleCount, sw.cycles>>,
                      <<IOCall("buttonIsPressed", NoPin, IF button THEN 1 ELSE 0)>>,
                      Nil)
    /\ IF ~button /\ Servo_sweepLoopTest(sw)
       THEN pc' = "setAngle" /\ sw' = sw
       ELSE pc' = "idle" /\ sw' = NoFrame
    /\ UNCHANGED <<heap, servos, pins, button, probe, given>>

sweepStep == sweepSetAngle \/ sweepPause \/ sweepAdvance \/ sweepPoll

(***************************************************************************)
(* The user at Button A.                                                   *)
(***************************************************************************)
Press ==
    /\ ~button
    /\ button' = TRUE
    /\ UNCHANGED <<heap, servos, pins, pc, sw, event, probe, given>>

Release ==
    /\ button
    /\ button' = FALSE
    /\ UNCHANGED <<heap, servos, pins, pc, sw, event, probe, given>>

(***************************************************************************)
(* Specifications.                                                         *)
(***************************************************************************)
Calls(sweepInputs) ==
    \/ \E pin \in Pins : connectServo(pin)
    \/ \E h \in Handles, angle \in AngleInputs : setAngle(h, angle)
    \/ \E h \in Handles : stop(h)
    \/ \E h \in Handles : getAngle(h)
    \/ \E h \in Handles, a \in sweepInputs : sweep(h, a[1], a[2], a[3], a[4])

Next ==
    \/ Calls(SweepInputs)
    \/ sweepStep
    \/ Press
    \/ Release

Spec == Init /\ [][Next]_vars

(***************************************************************************)
(* Sweeps with Button A left alone, the full-range sweeps included: the    *)
(* block program connects servos and sweeps them.  A running sweep keeps   *)
(* taking steps: basic.pause returns, and nothing else in the loop blocks. *)
(***************************************************************************)
FairNext ==
    \/ \E pin \in Pins : connectServo(pin)
    \/ \E h \in Handles, a \in SweepInputs \cup FullSweepInputs :
          sweep(h, a[1], a[2], a[3], a[4])
    \/ sweepStep

FairSpec == Init /\ [][FairNext]_vars /\ WF_vars(sweepStep)

(***************************************************************************)
(* angleToPulse on its own: a pair of angles is drawn, then converted.     *)
(***************************************************************************)
ProbeInit ==
    /\ heap = <<>>
    /\ servos = [p \in Pins |-> 0]
    /\ pins = [p \in Pins |-> [period |-> 0, mode |-> "none", value |-> 0]]
    /\ button = FALSE
    /\ pc = "idle"
    /\ sw = NoFrame
    /\ event = Event("init", 0, <<>>, <<>>, Nil)
    /\ \E a \in ProbeAngles, b \in ProbeAngles :
          probe = [a |-> a, b |-> b, pa |-> Nil, pb |-> Nil, done |-> FALSE]
    /\ given = NoGiven

ProbeStep ==
    /\ ~probe.done
    /\ probe' = [probe EXCEPT !.pa = angleToPulse(probe.a),
                              !.pb = angleToPulse(probe.b), !.done = TRUE]
    /\ UNCHANGED <<heap, servos, pins, button, pc, sw, event, given>>

ProbeSpec == ProbeInit /\ [][ProbeStep]_vars

(***************************************************************************)
(* A block program that passes the same speed and cycles, of any value, to *)
(* all its sweeps.                                                         *)
(***************************************************************************)
GivenInit ==
    /\ heap = <<>>
    /\ servos = [p \in Pins |-> 0]
    /\ pins = [p \in Pins |-> [period |-> 0, mode |-> "none", value |-> 0]]
    /\ button = FALSE
    /\ pc = "idle"
    /\ sw = NoFrame
    /\ event = Event("init", 0, <<>>, <<>>, Nil)
    /\ probe = NoProbe
    /\ \E g \in GivenInputs : given = [speed |-> g[1], cycles |-> g[2]]

GivenNext ==
    \/ \E pin \in Pins : connectServo(pin)
    \/ \E h \in Handles, se \in GivenAngleInputs :
          sweep(h, se[1], se[2], given.speed, given.cycles)
    \/ sweepStep
    \/ Press
    \/ Release

GivenSpec == GivenInit /\ [][GivenNext]_vars

(***************************************************************************)
(* Properties.                                                             *)
(***************************************************************************)
Abs(n) == IF n < 0 THEN 0 - n ELSE n

\* The angle of [0, 180] nearest to a.
NearestAngle(a) ==
    LET near == {c \in {0, a, 180} : 0 <= c /\ c <= 180}
    IN  CHOOSE c \in near : \A d \in near : Abs(c - a) <= Abs(d - a)

\* The last program step was one call of capability `call` on pin `pin`.
Issued(ev, call, pin) ==
    \E i \in 1 .. Len(ev.io) : ev.io[i].call = call /\ ev.io[i].pin = pin

\* A sweep is running and its clamped angles are equal / differ.
Sweeping == pc # "idle"
Degenerate == Sweeping /\ sw.startAngle = sw.endAngle

\* C1: right after setAngle(a) returns, getAngle() on that controller is a
\* clamped to [0, 180] (setAngle(-10) gives 0, setAngle(200) gives 180),
\* whatever calls came before.
C1_SetAngleThenGetAngle ==
    event.op = "setAngle" =>
        /\ Servo_getAngle(event.this) = NearestAngle(event.args[1])
        /\ (event.args[1] = 0 - 10 => Servo_getAngle(event.this) = 0)
        /\ (event.args[1] = 200 => Servo_getAngle(event.this) = 180)

\* setAngle(200) has returned on the second controller, after the first one
\* was driven and stopped.
C1_Witness ==
    /\ event.op = "setAngle" /\ event.args = <<200>> /\ event.this = 2
    /\ Servo_getAngle(2) = 180
    /\ pins[heap[1].pin].mode = "analog"

\* C2: connectServo is idempotent on controller identity: a pin's registry
\* entry, once made, is never replaced, every call returns the pin's entry,
\* and two different pins have different controllers.
C2_RegistryInv ==
    /\ \A p \in Pins, q \in Pins :
          (p # q /\ servos[p] # 0 /\ servos[q] # 0) => servos[p] # servos[q]
    /\ event.op = "connectServo" =>
          /\ event.ret \in Handles
          /\ event.ret = servos[event.args[1]]
          /\ heap[event.ret].pin = event.args[1]

C2_RegistryStep ==
    /\ \A p \in Pins : servos[p] # 0 => servos'[p] = servos[p]
    /\ \A h \in Handles : h \in 1 .. Len(heap') /\ heap'[h].pin = heap[h].pin

C2_ConnectIdempotent == [](C2_RegistryInv) /\ [][C2_RegistryStep]_vars

\* A second connectServo on a pin returned the existing controller (nothing
\* was constructed), with both pins connected and the controller moved since.
C2_Witness ==
    /\ event.op = "connectServo" /\ event.io = <<>>
    /\ \A p \in Pins : servos[p] # 0
    /\ heap[event.ret].currentAngle # 90

\* C3: with Button A never pressed, a sweep between two different clamped
\* angles terminates, by its cycle counter reaching the requested cycles,
\* and on return getAngle() is within [0, 180]; sweep(0, 180, 10, 1) too.
C3_ReturnedByCount ==
    (event.op = "sweep.poll" /\ pc = "idle") =>
        /\ event.io[1].value = 0
        /\ event.args[1] = event.args[2]
        /\ Servo_getAngle(event.this) \in 0 .. 180

C3_SweepTerminates ==
    /\ [](Sweeping /\ sw.startAngle # sw.endAngle => <>(pc = "idle"))
    /\ [](C3_ReturnedByCount)

\* sweep(0, 180, 10, 1) is at its last poll, the counter at cycles.
C3_Witness ==
    /\ pc = "poll" /\ sw.startAngle = 0 /\ sw.endAngle = 180
    /\ sw.delayMs = 10 /\ sw.cycles = 1 /\ sw.cycleCount = sw.cycles
    /\ Servo_getAngle(sw.this) = 179

\* C4: a stop-button poll that returns pressed ends the sweep at once,
\* whatever cycles remain: the sweep has returned, and the next program
\* step is no write, pause, advance or poll of that sweep.
C4_PressedPoll == event.op = "sweep.poll" /\ event.io[1].value = 1

C4_BreakOnPress ==
    /\ [](C4_PressedPoll => pc = "idle" /\ sw = NoFrame)
    /\ [][(C4_PressedPoll /\ event' # event) =>
            event'.op \notin {"sweep.setAngle", "sweep.pause", "sweep.advance",
                              "sweep.poll"}]_vars

\* A poll returned pressed with the counter still below cycles, and the sweep
\* has returned.
C4_Witness ==
    /\ C4_PressedPoll /\ pc = "idle"
    /\ event.args[1] = 0 /\ event.args[2] = 2

\* C5: stop() leaves currentAngle as it was, clears isActive, and issues
\* exactly one disable (zero) write, to its own pin, and no pulse write.
C5_StopStep ==
    (event'.op = "stop" /\ button' = button) =>
        LET h == event'.this
        IN  /\ heap'[h].currentAngle = Servo_getAngle(h)
            /\ heap'[h].isActive = FALSE
            /\ event'.io = <<IOCall("analogWritePin", heap[h].pin, 0)>>
            /\ pins'[heap[h].pin].mode = "analog"
            /\ pins'[heap[h].pin].value = 0

C5_StopFrame == [][C5_StopStep]_vars

\* stop() has returned on a controller that was active at 180 degrees.
C5_Witness ==
    /\ event.op = "stop"
    /\ Servo_getAngle(event.this) = 180 /\ ~heap[event.this].isActive
    /\ pins[heap[event.this].pin].mode = "analog"

\* C6: over integer angles, angleToPulse(a) is 500 + clamp(a, 0, 180) * 2000
\* / 180 rounded to the nearest microsecond; it does not decrease as the
\* angle grows; 0, 90 and 180 give 500, 1500 and 2500; angles below 0 give
\* 500 and angles above 180 give 2500.
NearestPulse(c) ==
    LET below == (500 * 180 + 2000 * c) \div 180
    IN  CHOOSE n \in {below, below + 1} :
            2 * Abs(180 * n - (500 * 180 + 2000 * c)) <= 180

C6_AngleToPulse ==
    probe.done =>
        /\ probe.pa = NearestPulse(NearestAngle(probe.a))
        /\ (probe.a <= probe.b => probe.pa <= probe.pb)
        /\ (probe.a = 0 => probe.pa = 500)
        /\ (probe.a = 90 => probe.pa = 1500)
        /\ (probe.a = 180 => probe.pa = 2500)
        /\ (probe.a < 0 => probe.pa = 500)
        /\ (probe.a > 180 => probe.pa = 2500)

\* angleToPulse was applied to an angle whose pulse is not a whole number of
\* microseconds before rounding, and to an angle above the range.
C6_Witness ==
    /\ probe.done /\ probe.a = 5 /\ probe.pa = 556
    /\ probe.b > 180 /\ probe.pb = 2500

\* C7 as stated: in a sweep whose clamped angles are equal the reversal
\* condition never holds, so the cycle counter is never incremented.
C7_NeverCounts == Degenerate => sw.cycleCount = 0

\* C7 amended: in a sweep whose clamped angles are equal every advance is a
\* reversal (the position alternates between startAngle + 1 and startAngle),
\* the counter is incremented by the first advance, and with Button A never
\* pressed the sweep terminates.
C7_EveryAdvanceReverses ==
    (Degenerate /\ pc = "poll") =>
        /\ sw.cycleCount >= 1
        /\ IF sw.forward THEN sw.current = sw.startAngle
                         ELSE sw.current = sw.startAngle + 1

C7_DegenerateTerminates ==
    /\ [](Degenerate => <>(pc = "idle"))
    /\ [](C7_EveryAdvanceReverses)

\* A sweep with equal angles and cycles = 2 is at its last poll.
C7_Witness ==
    /\ Degenerate /\ pc = "poll"
    /\ sw.cycles = 2 /\ sw.cycleCount = 2

\* C8 as stated: with startAngle < endAngle the cycle counter is incremented
\* once per forward-then-back traversal, that is, only by the reversal that
\* ends a backward leg (the position was moving down towards startAngle).
C8_CountsRoundTrips ==
    [][(pc = "advance" /\ sw.startAngle < sw.endAngle
            /\ sw'.cycleCount # sw.cycleCount) => sw.step < 0]_vars

\* C9: an operation on one controller leaves currentAngle and isActive of
\* every controller of another pin unchanged, and writes only to its own pin.
C9_IsolatedStep ==
    LET a == event'.this
    IN  a \in Handles =>
            /\ \A h \in Handles :
                  heap[h].pin # heap[a].pin =>
                      /\ heap'[h] = heap[h]
                      /\ pins'[heap[h].pin] = pins[heap[h].pin]
            /\ \A i \in 1 .. Len(event'.io) :
                  event'.io[i].pin \in {NoPin, heap[a].pin}

C9_Isolation == [][C9_IsolatedStep]_vars

\* A sweep on the second controller has written an angle while the first
\* controller stays active at 180 degrees.
C9_Witness ==
    /\ Len(heap) = 2 /\ event.op = "sweep.setAngle" /\ event.this = 2
    /\ heap[1].isActive /\ heap[1].currentAngle = 180
    /\ heap[2].currentAngle = 1

\* C10: every controller's currentAngle is within [0, 180] in every state,
\* also while a sweep's position is outside its bounds; a new controller
\* has 90, and the value changes only in a step that writes an angle pulse
\* to that controller's pin.
C10_AngleInRange == \A h \in Handles : heap[h].currentAngle \in 0 .. 180

C10_AngleStep ==
    \A h \in 1 .. Len(heap') :
        IF h \in Handles
        THEN heap'[h].currentAngle # heap[h].currentAngle =>
                 Issued(event', "servoWritePin", heap[h].pin)
        ELSE heap'[h].currentAngle = 90

C10_CurrentAngleDomain == [](C10_AngleInRange) /\ [][C10_AngleStep]_vars

\* A sweep step wrote a position outside [0, 180], stored clamped.
C10_Witness ==
    /\ event.op = "sweep.setAngle" /\ event.args[1] > 180
    /\ heap[event.this].currentAngle = 180

\* The running sweep is about to make, or has just made, its first write.
FirstIteration ==
    sw.cycleCount = 0 /\ sw.forward /\ sw.current = sw.startAngle

\* C11 as stated: for clamped startAngle # endAngle, whichever is larger,
\* the sweep steps from startAngle towards endAngle and its first reversal
\* (the first increment of the cycle counter) does not come before the
\* position has reached endAngle.
C11_FirstReversalAtEnd ==
    [][(pc = "advance" /\ sw.startAngle # sw.endAngle
            /\ sw.cycleCount = 0 /\ sw'.cycleCount = 1) =>
        IF sw.startAngle < sw.endAngle
        THEN sw.current + sw.step >= sw.endAngle
        ELSE sw.current + sw.step <= sw.endAngle]_vars

\* C12: isActive tracks the last output operation on the controller: false
\* while nothing was written since construction and after stop, true after
\* setAngle and after a sweep, which writes an angle at least once even
\* when Button A is down from the start.
C12_IsActiveTracksOutput ==
    /\ \A h \in Handles :
          heap[h].isActive <=> pins[heap[h].pin].mode = "servo"
    /\ event.op = "setAngle" => heap[event.this].isActive
    /\ event.op = "stop" => ~heap[event.this].isActive
    /\ (event.op = "sweep.poll" /\ pc = "idle") => heap[event.this].isActive
    /\ event.op = "sweep" => pc = "setAngle"
    /\ pc \in {"pause", "advance", "poll"} => heap[sw.this].isActive

\* A sweep on a stopped controller has returned at its first poll, Button A
\* down, and the controller is active again; the other controller, stopped
\* after a write, is not.
C12_Witness ==
    /\ event.op = "sweep.poll" /\ event.io[1].value = 1 /\ pc = "idle"
    /\ event.args[1] = 0 /\ event.this = 1 /\ heap[1].isActive
    /\ Len(heap) = 2 /\ ~heap[2].isActive /\ heap[2].currentAngle = 0

\* C13 as stated: for clamped startAngle # endAngle no two consecutive
\* angle writes of a sweep command the same clamped angle.
C13_NoRepeatedAngle ==
    [][(pc = "setAngle" /\ pc' = "pause" /\ sw.startAngle # sw.endAngle
            /\ ~FirstIteration) =>
        heap'[sw.this].currentAngle # heap[sw.this].currentAngle]_vars

\* C17: every angle write, by setAngle or by a step of a sweep, issues the
\* pulse angleToPulse(currentAngle) of the currentAngle that same write
\* stored, a value in [500, 2500]; and while isActive holds, the pulse last
\* written to the pin is the one of currentAngle.
C17_PulseMatchesAngle ==
    /\ event.op \in {"setAngle", "sweep.setAngle"} =>
          /\ Len(event.io) = 1
          /\ event.io[1] = IOCall("servoWritePin", heap[event.this].pin,
                                  angleToPulse(heap[event.this].currentAngle))
          /\ event.io[1].value \in 500 .. 2500
    /\ \A h \in Handles :
          heap[h].isActive =>
              /\ pins[heap[h].pin].mode = "servo"
              /\ pins[heap[h].pin].value = angleToPulse(heap[h].currentAngle)
              /\ pins[heap[h].pin].value \in 500 .. 2500

\* A step of a sweep has written position 181: 180 is stored and the pulse
\* of 180 is on the pin, while the other controller holds another angle.
C17_Witness ==
    /\ event.op = "sweep.setAngle" /\ event.args = <<ANGLE_RANGE + 1>>
    /\ heap[event.this].currentAngle = ANGLE_RANGE
    /\ pins[heap[event.this].pin].value = 2500
    /\ \E h \in Handles :
          heap[h].isActive /\ heap[h].currentAngle = 0
              /\ pins[heap[h].pin].value = 500

\* C18: in a sweep with clamped startAngle < endAngle at least 2 apart,
\* whatever cycles is and whatever Button A does, every angle written lies
\* in [startAngle, endAngle - 1]: endAngle is never written, and when the
\* angles are at least 3 apart startAngle is written by the first step only.
C18_WrittenAngles ==
    (pc = "pause" /\ sw.startAngle < sw.endAngle
            /\ sw.endAngle - sw.startAngle >= 2) =>
        /\ event.op = "sweep.setAngle"
        /\ heap[sw.this].currentAngle \in sw.startAngle .. (sw.endAngle - 1)
        /\ (sw.endAngle - sw.startAngle >= 3
                /\ heap[sw.this].currentAngle = sw.startAngle) => FirstIteration

\* The second forward leg of sweep(0, 3, .., 2) has turned at 1 and written 2.
C18_Witness ==
    /\ pc = "pause" /\ sw.startAngle = 0 /\ sw.endAngle = 3
    /\ sw.forward /\ sw.cycleCount = 1
    /\ heap[sw.this].currentAngle = 2

\* C14: an iteration of the sweep loop is, in this order, one angle write,
\* one pause of delayMs, the position advance and one poll of Button A: each
\* step of the loop follows exactly the step before it in that order, the
\* first write follows the call directly, and the loop goes from a poll to a
\* further write only if that poll read the button as up, so that with the
\* button held down at most one more write precedes the return
\* (C14_IterationOrder below).
C14_StepOrder ==
    /\ pc = "pause" <=> event.op = "sweep.setAngle"
    /\ pc = "advance" <=> event.op = "sweep.pause"
    /\ pc = "poll" <=> event.op = "sweep.advance"
    /\ pc = "setAngle" => event.op \in {"sweep", "sweep.poll"}
    /\ event.op = "sweep" => pc = "setAngle"
    /\ event.op = "sweep.poll" => pc \in {"setAngle", "idle"}
    /\ event.op = "sweep.setAngle" =>
          /\ Len(event.io) = 1
          /\ event.io[1].call = "servoWritePin"
          /\ event.io[1].pin = heap[sw.this].pin
    /\ event.op = "sweep.pause" =>
          event.io = <<IOCall("pause", NoPin, sw.delayMs)>>
    /\ event.op \in {"sweep", "sweep.advance"} => event.io = <<>>
    /\ event.op = "sweep.poll" =>
          /\ Len(event.io) = 1
          /\ event.io[1].call = "buttonIsPressed"
          /\ event.io[1].value \in {0, 1}
          /\ pc = "setAngle" => event.io[1].value = 0
          /\ event.io[1].value = 1 => pc = "idle"

\* The poll reads Button A as it is at that moment, once, and with the
\* button down the sweep returns without another step.
C14_PollStep ==
    (pc = "poll" /\ event' # event) =>
        /\ event'.op = "sweep.poll"
        /\ event'.io[1].value = (IF button THEN 1 ELSE 0)
        /\ button => (pc' = "idle" /\ sw' = NoFrame)

C14_IterationOrder == []C14_StepOrder /\ [][C14_PollStep]_vars

\* A later iteration of a sweep has written, paused and advanced with cycles
\* still to go, and is about to poll Button A, which is down.
C14_Witness ==
    /\ pc = "poll" /\ event.op = "sweep.advance" /\ button
    /\ sw.cycleCount = 1 /\ sw.cycles = 2 /\ ~sw.forward

\* A pin's period is 20000 microseconds once the pin is connected and is not
\* configured before; the controller of a pin holds that pin; only connects
\* issue a period configuration.
C15_PeriodState ==
    /\ \A p \in Pins :
          IF servos[p] = 0
          THEN pins[p].period = 0
          ELSE pins[p].period = 20000 /\ servos[p] \in Handles
                  /\ heap[servos[p]].pin = p
    /\ \A i \in DOMAIN event.io :
          event.io[i].call = "analogSetPeriod" => event.op = "connectServo"

\* A step that connects a pin for the first time issues exactly the period
\* configuration of that pin; a connect of a pin already connected issues no
\* call and changes nothing; an entry of the registry stays as it is, with
\* its controller on its pin.
C15_ConnectStep ==
    \A p \in Pins :
        /\ (servos[p] = 0 /\ servos'[p] # 0) =>
              /\ event'.op = "connectServo" /\ event'.args = <<p>>
              /\ event'.io = <<IOCall("analogSetPeriod", p, 20000)>>
        /\ servos[p] # 0 =>
              /\ servos'[p] = servos[p]
              /\ heap'[servos[p]].pin = p
              /\ pins'[p].period = pins[p].period
              /\ (event'.op = "connectServo" /\ event'.args = <<p>>
                      /\ button' = button) =>
                    /\ event'.io = <<>>
                    /\ heap' = heap /\ pins' = pins /\ servos' = servos

\* C15: the PWM period of a pin is configured exactly once, to 20000
\* microseconds, by the first connect of that pin; later connects of the pin
\* issue no period configuration and no other write; the registry never
\* removes or reassigns an entry.
C15_PeriodOncePerPin == []C15_PeriodState /\ [][C15_ConnectStep]_vars

\* Both pins are connected, the servo of one of them has been driven, and
\* that pin has just been connected again, without any call issued.
C15_Witness ==
    /\ event.op = "connectServo" /\ event.io = <<>>
    /\ \A p \in Pins : servos[p] # 0
    /\ pins[event.args[1]].mode = "servo"
    /\ pins[event.args[1]].period = 20000
    /\ heap[event.ret].currentAngle = 0

\* The speed and the cycles the sweeps of GivenSpec run with, stated from
\* the given values, and the pause of that speed: 100 / speed to the nearest
\* integer, a half upwards.
ClampedSpeed ==
    IF given.speed < 1 THEN 1 ELSE IF given.speed > 10 THEN 10 ELSE given.speed

FlooredCycles == IF given.cycles <= 0 THEN 1 ELSE given.cycles

PauseOfSpeed(c) ==
    CHOOSE d \in 10 .. 100 : (2 * d - 1) * c <= 200 /\ 200 < (2 * d + 1) * c

\* C16: sweep never rejects its parameters: a sweep given cycles <= 0 runs
\* as with cycles = 1 and one given a speed below 1 or above 10 as with
\* speed 1 or 10 (the loop is entered, and its locals are those of the
\* clamped call); every pause of the sweep lasts round(100 / clamped speed)
\* ms, a value in [10, 100]; left alone it returns with the clamped count.
C16_ParametersClamped ==
    /\ event.op = "sweep" =>
          /\ pc = "setAngle"
          /\ sw = Servo_sweepEntry(sw.this, sw.startAngle, sw.endAngle,
                                   ClampedSpeed, FlooredCycles)
    /\ Sweeping =>
          /\ sw.cycles = FlooredCycles
          /\ sw.delayMs = PauseOfSpeed(ClampedSpeed)
          /\ sw.delayMs \in 10 .. 100
          /\ sw.cycleCount <= sw.cycles
    /\ event.op = "sweep.pause" =>
          event.io = <<IOCall("pause", NoPin, PauseOfSpeed(ClampedSpeed))>>
    /\ (event.op = "sweep.poll" /\ pc = "idle" /\ event.io[1].value = 0) =>
          event.args = <<FlooredCycles, FlooredCycles>>

\* A sweep given a speed above 10 and cycles below 0 runs with one cycle and
\* has paused 10 ms.
C16_Witness ==
    /\ given.speed > 10 /\ given.cycles < 0
    /\ event.op = "sweep.pause" /\ event.io[1].value = 10
    /\ sw.cycles = 1

====
